---------------------------- MODULE Spec2Model ----------------------------
(***************************************************************************)
(* A model of src/emu.py: the memory map (N64Memory), the instruction      *)
(* interpreter (MIPSR4300i), the frame producer (RCP) and the host shell   *)
(* that drives them (N64Emulator).                                         *)
(*                                                                         *)
(* Python integers are unbounded and the program's values reach 2^32 - 1,  *)
(* which is more than a TLC integer holds.  An integer n >= 0 is therefore *)
(* written as the pair <<n \div 65536, n % 65536>>: the second component   *)
(* is a 16-bit limb, the first is everything above it (and is below 65536  *)
(* exactly when n is a 32-bit value).                                      *)
(***************************************************************************)
EXTENDS Integers, Sequences, FiniteSets, TLC

VARIABLES memory,        \* N64Memory: [rdram, rom, sram, registers]
          cpu,           \* MIPSR4300i: [pc, regs, hi, lo, cp0_regs, cycles]
          rcp,           \* RCP: [framebuffer, vi_regs]
          rom_loaded,    \* N64Emulator.rom_loaded
          running,       \* N64Emulator.running
          timers,        \* number of emulation_loop callbacks queued by root.after
          status_label,  \* text of the status bar: [text, rom_name]
          title,         \* title of the window: [text, rom_name]
          dialog,        \* the last message box shown ("none" before any)
          call           \* the last operation invoked, its arguments and its outcome

vars ==
    <<memory, cpu, rcp, rom_loaded, running, timers, status_label, title, dialog, call>>

shellVars == <<rcp, rom_loaded, running, timers, status_label, title, dialog>>

----------------------------------------------------------------------------
(* Integers as pairs of limbs *)

Limb == 256 * 256

W(h, l) == <<h, l>>

ZERO == W(0, 0)

\* True of the pairs that stand for a value in 0 .. 2^32 - 1.
IsWord32(a) == a[1] \in 0..(Limb - 1) /\ a[2] \in 0..(Limb - 1)

\* Python's a + b.
Add(a, b) ==
    LET l == a[2] + b[2]
    IN  W(a[1] + b[1] + (l \div Limb), l % Limb)

\* Python's a < b and a <= b.
Lt(a, b) == a[1] < b[1] \/ (a[1] = b[1] /\ a[2] < b[2])

Le(a, b) == a = b \/ Lt(a, b)

RECURSIVE BitAnd(_, _)
BitAnd(x, y) ==
    IF x = 0 \/ y = 0 THEN 0
    ELSE 2 * BitAnd(x \div 2, y \div 2) + (IF x % 2 = 1 /\ y % 2 = 1 THEN 1 ELSE 0)

RECURSIVE BitOr(_, _)
BitOr(x, y) ==
    IF x = 0 THEN y
    ELSE IF y = 0 THEN x
    ELSE 2 * BitOr(x \div 2, y \div 2) + (IF x % 2 = 1 \/ y % 2 = 1 THEN 1 ELSE 0)

\* Python's a & m and a | m.
And(a, m) == W(BitAnd(a[1], m[1]), BitAnd(a[2], m[2]))

Or(a, m) == W(BitOr(a[1], m[1]), BitOr(a[2], m[2]))

Pow2(n) == 2 ^ n

\* Python's a >> n, for n in 0 .. 31.
Shr(a, n) ==
    IF n >= 16
    THEN LET r == a[1] \div Pow2(n - 16) IN W(r \div Limb, r % Limb)
    ELSE W(a[1] \div Pow2(n), ((a[1] % Pow2(n)) * Pow2(16 - n)) + (a[2] \div Pow2(n)))

MASK32 == W(65535, 65535)     \* 0xFFFFFFFF

\* Python's (a << n) & 0xFFFFFFFF, for a 32-bit a and n in 0 .. 31.  The bits that
\* the mask would drop (those from bit 32 - n up) are dropped before the shift, so
\* that no intermediate value exceeds 32 bits.
ShlMask32(a, n) ==
    IF n >= 16
    THEN W((a[2] % Pow2(32 - n)) * Pow2(n - 16), 0)
    ELSE LET h == a[1] % Pow2(16 - n)
             l == a[2] * Pow2(n)
         IN  W(h * Pow2(n) + (l \div Limb), l % Limb)

\* The value of a pair as a TLC integer (used for buffer indices and small fields).
ToInt(a) == a[1] * Limb + a[2]

Min(x, y) == IF x < y THEN x ELSE y

----------------------------------------------------------------------------
(* N64Memory *)

RDRAM_SIZE == 8388608

SRAM_SIZE == 262144

RDRAM_END == W(128, 0)        \* 0x00800000

RDRAM_MASK == W(127, 65535)   \* 0x7FFFFF

ROM_BASE == W(4096, 0)        \* 0x10000000

ROM_END == W(8128, 0)         \* 0x1FC00000

\* self.rom is None, or a bytes object.
None == [none |-> TRUE, data |-> <<>>]

Bytes(d) == [none |-> FALSE, data |-> d]

\* Python's truth value of self.rom: None and b'' are both false.
Truthy(r) == ~r.none /\ Len(r.data) > 0

\* A zero-initialised bytearray is kept as the map of the offsets that were
\* written; every other offset reads 0.
ByteAt(buf, i) == IF i \in DOMAIN buf THEN buf[i] ELSE 0

\* buf[idx:idx+4] of a bytearray of `size` bytes: the slice stops at the end.
Slice4(buf, size, idx) ==
    [k \in 1..Min(4, size - idx) |-> ByteAt(buf, idx + k - 1)]

\* struct.unpack('>I', b)[0]: a struct.error unless b holds exactly 4 bytes.
Unpack(b) ==
    IF Len(b) # 4
    THEN [raised |-> TRUE, val |-> ZERO]
    ELSE [raised |-> FALSE, val |-> W(b[1] * 256 + b[2], b[3] * 256 + b[4])]

\* The four big-endian bytes of a 32-bit value.
PackBytes(v) == <<v[1] \div 256, v[1] % 256, v[2] \div 256, v[2] % 256>>

N64Memory_init ==
    [rdram |-> <<>>, rom |-> None, sram |-> <<>>, registers |-> <<>>]

load_rom(m, rom_data) == [m EXCEPT !.rom = Bytes(rom_data)]

\* 0x10000000 <= address < 0x1FC00000
InRom(address) == Le(ROM_BASE, address) /\ Lt(address, ROM_END)

\* read32's test 0x00000000 <= address < 0x00800000, and its index into rdram.
ReadsRdram(address) == Le(ZERO, address) /\ Lt(address, RDRAM_END)

ReadIndex(address) == ToInt(And(address, RDRAM_MASK))

\* The bounds test on the first byte only.
RomInBounds_StartOnly(data, idx) == idx < Len(data)

\* idx + 4 <= len(self.rom)
RomInBounds(data, idx) == idx + 4 <= Len(data)

\* self.rom[idx:idx+4]: the slice stops at the end of the image.
RomSlice(data, idx) == SubSeq(data, idx + 1, Min(idx + 4, Len(data)))

read32(m, address) ==
    IF ReadsRdram(address)
    THEN Unpack(Slice4(m.rdram, RDRAM_SIZE, ReadIndex(address)))
    ELSE IF InRom(address) /\ Truthy(m.rom)
              /\ RomInBounds(m.rom.data, ToInt(address) - ToInt(ROM_BASE))
         THEN Unpack(RomSlice(m.rom.data, ToInt(address) - ToInt(ROM_BASE)))
         ELSE [raised |-> FALSE, val |-> ZERO]

\* struct.pack_into('>I', buf, idx, value): a struct.error, with nothing written,
\* unless the 4 bytes fit in the buffer and value is in 0 .. 2^32 - 1.
PackInto(buf, size, idx, value) ==
    IF idx + 4 > size \/ ~IsWord32(value)
    THEN [raised |-> TRUE, buf |-> buf]
    ELSE [raised |-> FALSE,
          buf |-> [i \in (DOMAIN buf) \cup (idx..(idx + 3)) |->
                      IF i \in idx..(idx + 3) THEN PackBytes(value)[i - idx + 1]
                      ELSE buf[i]]]

\* write32 without its range test.
WritesRdram_Always(address) == TRUE

\* write32's test 0x00000000 <= address < 0x00800000, and its index into rdram.
WritesRdram(address) == Le(ZERO, address) /\ Lt(address, RDRAM_END)

\* The index masked with 0x7FFFF.
WriteIndex_ShortMask(address) == ToInt(And(address, W(7, 65535)))

WriteIndex(address) == ToInt(And(address, RDRAM_MASK))

write32(m, address, value) ==
    IF WritesRdram(address)
    THEN LET p == PackInto(m.rdram, RDRAM_SIZE, WriteIndex(address), value)
         IN  [raised |-> p.raised, mem |-> [m EXCEPT !.rdram = p.buf]]
    ELSE [raised |-> FALSE, mem |-> m]

----------------------------------------------------------------------------
(* MIPSR4300i *)

\* A boot vector at the first word of the image.
BOOT_VECTOR_InImage == W(4096, 0)

BOOT_VECTOR == W(41984, 64)   \* 0xA4000040

NumRegs == 32

MIPSR4300i_init ==
    [pc |-> BOOT_VECTOR,
     regs |-> [i \in 0..(NumRegs - 1) |-> ZERO],
     hi |-> ZERO,
     lo |-> ZERO,
     cp0_regs |-> [i \in 0..(NumRegs - 1) |-> ZERO],
     cycles |-> 0]

fetch(c, m) == read32(m, c.pc)

\* (instruction >> n) & mask, as a small integer.
Field(instruction, n, mask) == ToInt(And(Shr(instruction, n), W(0, mask)))

\* The immediate taken as unsigned.
SignExtend_ZeroExtend(imm) == imm

\* if imm & 0x8000: imm |= 0xFFFF0000
SignExtend(imm) ==
    IF And(imm, W(0, 32768)) # ZERO THEN Or(imm, W(65535, 0)) ELSE imm

\* execute without its last line.
KeepZero_Skipped(regs) == regs

\* self.regs[0] = 0 at the end of execute
KeepZero(regs) == [regs EXCEPT ![0] = ZERO]

\* The tail of execute: pc += 4, cycles += 1, regs[0] = 0.
Advance(c, regs) ==
    [c EXCEPT !.regs = KeepZero(regs),
              !.pc = Add(c.pc, W(0, 4)),
              !.cycles = c.cycles + 1]

\* ADD without the & 0xFFFFFFFF.
ExecADD_NoMask(regs, rs, rt, rd) ==
    [regs EXCEPT ![rd] = Add(regs[rs], regs[rt])]

ExecADD(regs, rs, rt, rd) ==
    [regs EXCEPT ![rd] = And(Add(regs[rs], regs[rt]), MASK32)]

\* SLL shifting to the right.
ExecSLL_ShiftsRight(regs, rt, rd, sa) ==
    [regs EXCEPT ![rd] = Shr(regs[rt], sa)]

ExecSLL(regs, rt, rd, sa) ==
    [regs EXCEPT ![rd] = ShlMask32(regs[rt], sa)]

ExecADDI(regs, rs, rt, imm) ==
    [regs EXCEPT ![rt] = And(Add(regs[rs], SignExtend(imm)), MASK32)]

\* The effective address of LW.
LwAddr(regs, rs, offset) == And(Add(regs[rs], SignExtend(offset)), MASK32)

\* ADD's test taking the function field 0x21 too.
IsADD_AnyAddFunct(opcode, funct) == opcode = 0 /\ funct \in {32, 33}

\* The dispatch conditions of execute.
IsADD(opcode, funct) == opcode = 0 /\ funct = 32

IsSLL(opcode, funct) == opcode = 0 /\ funct = 0

IsADDI(opcode) == opcode = 8

IsLW(opcode) == opcode = 35

\* The result of a call of execute: the interpreter after it, whether the fetch
\* returned, the word it returned, and whether an exception left the call.
Result(c, raised, fetched, instruction) ==
    [cpu |-> c, raised |-> raised, fetched |-> fetched, instruction |-> instruction]

\* LW, from the read on: an exception in read32 leaves execute before anything
\* is assigned.
ExecLW(c, rt, ld, instruction) ==
    IF ld.raised
    THEN Result(c, TRUE, TRUE, instruction)
    ELSE Result(Advance(c, [c.regs EXCEPT ![rt] = ld.val]), FALSE, TRUE, instruction)

\* The if/elif chain of execute on the decoded fields, and its tail.
Dispatch(c, m, instruction, opcode, funct, rs, rt, rd, sa, imm) ==
    IF IsADD(opcode, funct)
    THEN Result(Advance(c, ExecADD(c.regs, rs, rt, rd)), FALSE, TRUE, instruction)
    ELSE IF IsSLL(opcode, funct)
    THEN Result(Advance(c, ExecSLL(c.regs, rt, rd, sa)), FALSE, TRUE, instruction)
    ELSE IF IsADDI(opcode)
    THEN Result(Advance(c, ExecADDI(c.regs, rs, rt, imm)), FALSE, TRUE, instruction)
    ELSE IF IsLW(opcode)
    THEN ExecLW(c, rt, read32(m, LwAddr(c.regs, rs, imm)), instruction)
    ELSE Result(Advance(c, c.regs), FALSE, TRUE, instruction)

\* The decoding of the fetched word; an exception in fetch leaves execute at once.
Decode(c, m, f) ==
    IF f.raised
    THEN Result(c, TRUE, FALSE, ZERO)
    ELSE Dispatch(c, m, f.val,
                  Field(f.val, 26, 63), Field(f.val, 0, 63),
                  Field(f.val, 21, 31), Field(f.val, 16, 31), Field(f.val, 11, 31),
                  Field(f.val, 6, 31), And(f.val, W(0, 65535)))

\* One call of execute on interpreter c over memory m.
execute(c, m) == Decode(c, m, fetch(c, m))

----------------------------------------------------------------------------
(* RCP *)

FB_ROWS == 240

FB_COLS == 320

\* The framebuffer is rows x cols x 3 bytes.  The program only ever fills a whole
\* colour plane with one value, so a buffer is kept as its shape and the value of
\* each of its three planes.
Framebuffer(r, g, b) == [shape |-> <<FB_ROWS, FB_COLS, 3>>, plane |-> <<r, g, b>>]

VI_REGS ==
    [status |-> 0, origin |-> 0, width |-> FB_COLS, v_sync |-> 0, h_sync |-> 0,
     leap |-> 0, h_start |-> 0, v_start |-> 0, v_burst |-> 0,
     x_scale |-> 512, y_scale |-> 512]

RCP_init == [framebuffer |-> Framebuffer(0, 0, 0), vi_regs |-> VI_REGS]

\* render_frame adding the pattern to what the buffer holds (uint8 arithmetic).
render_frame_Accumulates(r) ==
    [r EXCEPT !.framebuffer = Framebuffer((r.framebuffer.plane[1] + 64) % 256,
                                          (r.framebuffer.plane[2] + 32) % 256,
                                          (r.framebuffer.plane[3] + 128) % 256)]

\* The three assignments of render_frame; it returns self.framebuffer.
render_frame(r) == [r EXCEPT !.framebuffer = Framebuffer(64, 32, 128)]

----------------------------------------------------------------------------
(* N64Emulator *)

\* A label: a fixed text followed by the name decoded from the image.
Text(t) == [text |-> t, rom_name |-> <<>>]

Named(t, name) == [text |-> t, rom_name |-> name]

N64Emulator_init ==
    /\ memory = N64Memory_init
    /\ cpu = MIPSR4300i_init
    /\ rcp = RCP_init
    /\ rom_loaded = FALSE
    /\ running = FALSE
    /\ timers = 0
    /\ status_label = Text("Ready")
    /\ title = Text("Project64 - Nintendo 64 Emulator")
    /\ dialog = "none"
    /\ call = [op |-> "init"]

\* The first 4 bytes of the three recognised layouts.
Z64_HEADER == <<128, 55, 18, 64>>     \* b'\x80\x37\x12\x40'

N64_HEADER == <<55, 128, 64, 18>>     \* b'\x37\x80\x40\x12'

V64_HEADER == <<64, 18, 55, 128>>     \* b'\x40\x12\x37\x80'

\* data[a:b] of a bytes object, 0-based, the end clipped to the length.
PySlice(data, a, b) == SubSeq(data, a + 1, Min(b, Len(data)))

\* swap_endian: every group of 4 bytes reversed (a shorter last group too).
swap_endian(data) ==
    [p \in 1..Len(data) |->
        LET first == 4 * ((p - 1) \div 4) + 1
            last == Min(first + 3, Len(data))
        IN  data[first + last - p]]

\* byte_swap: every pair of bytes exchanged; data[i+1] is an IndexError on the
\* last byte of a file of odd length.
byte_swap(data) ==
    IF Len(data) % 2 = 1
    THEN [raised |-> TRUE, data |-> data]
    ELSE [raised |-> FALSE,
          data |-> [p \in 1..Len(data) |-> IF p % 2 = 1 THEN data[p + 1] ELSE data[p - 1]]]

\* The if/elif chain on the header: the image to install, or an exception.
Normalize(rom_data) ==
    LET header == PySlice(rom_data, 0, 4)
    IN  IF header = Z64_HEADER THEN [raised |-> FALSE, data |-> rom_data]
        ELSE IF header = N64_HEADER
        THEN [raised |-> FALSE, data |-> swap_endian(rom_data)]
        ELSE IF header = V64_HEADER THEN byte_swap(rom_data)
        ELSE [raised |-> FALSE, data |-> rom_data]

\* str.strip(): the ASCII characters Python counts as whitespace.
Whitespace == {9, 10, 11, 12, 13, 28, 29, 30, 31, 32}

RECURSIVE LStrip(_)
LStrip(t) == IF t # <<>> /\ Head(t) \in Whitespace THEN LStrip(Tail(t)) ELSE t

RECURSIVE RStrip(_)
RStrip(t) ==
    IF t # <<>> /\ t[Len(t)] \in Whitespace THEN RStrip(SubSeq(t, 1, Len(t) - 1)) ELSE t

IsAscii(b) == b < 128

\* rom_data[0x20:0x34].decode('ascii', errors='ignore').strip()
RomName(rom_data) == RStrip(LStrip(SelectSeq(PySlice(rom_data, 32, 52), IsAscii)))

\* N64Emulator.load_rom with the file the dialog returned: file.chosen is false
\* when the dialog was cancelled, file.readable when open and read succeed.
LoadRom(file) ==
    /\ call' = [op |-> "load_rom", file |-> file,
                raised |-> file.chosen /\ (~file.readable \/ Normalize(file.data).raised)]
    /\ IF ~file.chosen
       THEN UNCHANGED <<memory, rom_loaded, status_label, title, dialog>>
       ELSE IF ~file.readable \/ Normalize(file.data).raised
       THEN /\ dialog' = "error"
            /\ UNCHANGED <<memory, rom_loaded, status_label, title>>
       ELSE /\ memory' = load_rom(memory, Normalize(file.data).data)
            /\ rom_loaded' = TRUE
            /\ status_label' = Named("Loaded: ", RomName(Normalize(file.data).data))
            /\ title' = Named("Project64 - ", RomName(Normalize(file.data).data))
            /\ UNCHANGED dialog
    /\ UNCHANGED <<cpu, rcp, running, timers>>

BATCH == 1000

\* for _ in range(n): self.cpu.execute() -- the interpreter after the calls, and
\* whether one of them raised (the loop then ends there, the earlier calls kept).
\* The n calls are evaluated as two halves, which keeps the evaluation shallow.
Outcome(r) == [cpu |-> r.cpu, raised |-> r.raised]

RECURSIVE RunBatch(_, _, _)

\* The second half of a batch, after the first half ended as `first`.
RunRest(first, m, n) == IF first.raised THEN first ELSE RunBatch(first.cpu, m, n)

RunBatch(c, m, n) ==
    IF n = 0 THEN [cpu |-> c, raised |-> FALSE]
    ELSE IF n = 1 THEN Outcome(execute(c, m))
    ELSE RunRest(RunBatch(c, m, n \div 2), m, n - (n \div 2))

\* The body of emulation_loop when running: a batch, a frame, root.after.  An
\* exception in the batch leaves the callback before the frame and the re-arming.
\* (The frame-rate label, which depends on the wall clock, is not modelled.)
AfterBatch(r, pending) ==
    /\ cpu' = r.cpu
    /\ IF r.raised
       THEN /\ timers' = pending
            /\ UNCHANGED rcp
       ELSE /\ rcp' = render_frame(rcp)
            /\ timers' = pending + 1

\* `pending` is the number of callbacks queued when the body starts.
LoopBody(pending) == AfterBatch(RunBatch(cpu, memory, BATCH), pending)

MaxBatches == 2

MaxTimers == 2

\* The loop can run once more within the bounds of the model.
WithinBounds == cpu.cycles < MaxBatches * BATCH /\ timers < MaxTimers

\* start_emulation without its test of self.rom_loaded.
StartEmulation_NoCheck ==
    /\ call' = [op |-> "start_emulation", raised |-> FALSE]
    /\ WithinBounds
    /\ running' = TRUE
    /\ status_label' = Text("Running")
    /\ LoopBody(timers)
    /\ UNCHANGED <<memory, rom_loaded, title, dialog>>

StartEmulation ==
    /\ call' = [op |-> "start_emulation", raised |-> FALSE]
    /\ IF ~rom_loaded
       THEN /\ dialog' = "warning"
            /\ UNCHANGED <<cpu, rcp, running, timers, status_label>>
       ELSE /\ WithinBounds
            /\ running' = TRUE
            /\ status_label' = Text("Running")
            /\ LoopBody(timers)
            /\ UNCHANGED dialog
    /\ UNCHANGED <<memory, rom_loaded, title>>

\* pause_emulation changing the status text only.
PauseEmulation_LabelOnly ==
    /\ call' = [op |-> "pause_emulation", raised |-> FALSE]
    /\ status_label' = Text("Paused")
    /\ UNCHANGED <<memory, cpu, rcp, rom_loaded, running, timers, title, dialog>>

PauseEmulation ==
    /\ call' = [op |-> "pause_emulation", raised |-> FALSE]
    /\ running' = FALSE
    /\ status_label' = Text("Paused")
    /\ UNCHANGED <<memory, cpu, rcp, rom_loaded, timers, title, dialog>>

\* reset_emulation carrying the instruction counter over to the new interpreter.
ResetEmulation_KeepsCounter ==
    /\ call' = [op |-> "reset_emulation", raised |-> FALSE]
    /\ cpu' = [MIPSR4300i_init EXCEPT !.cycles = cpu.cycles]
    /\ rcp' = RCP_init
    /\ status_label' = IF rom_loaded THEN Text("Reset") ELSE status_label
    /\ UNCHANGED <<memory, rom_loaded, running, timers, title, dialog>>

ResetEmulation ==
    /\ call' = [op |-> "reset_emulation", raised |-> FALSE]
    /\ cpu' = MIPSR4300i_init
    /\ rcp' = RCP_init
    /\ status_label' = IF rom_loaded THEN Text("Reset") ELSE status_label
    /\ UNCHANGED <<memory, rom_loaded, running, timers, title, dialog>>

StopEmulation ==
    /\ call' = [op |-> "stop_emulation", raised |-> FALSE]
    /\ running' = FALSE
    /\ cpu' = MIPSR4300i_init
    /\ rcp' = RCP_init
    /\ status_label' = Text("Stopped")
    /\ UNCHANGED <<memory, rom_loaded, timers, title, dialog>>

\* A callback queued by root.after fires.
EmulationLoop ==
    /\ timers > 0
    /\ call' = [op |-> "emulation_loop", raised |-> FALSE]
    /\ IF ~running
       THEN /\ timers' = timers - 1
            /\ UNCHANGED <<cpu, rcp>>
       ELSE /\ cpu.cycles < MaxBatches * BATCH
            /\ LoopBody(timers - 1)
    /\ UNCHANGED <<memory, rom_loaded, running, status_label, title, dialog>>

----------------------------------------------------------------------------
(* Inputs of the host-shell specification *)

RECURSIVE Zeros(_)
Zeros(n) == IF n = 0 THEN <<>> ELSE <<0>> \o Zeros(n - 1)

\* A 0x40-byte image: ADDI $t0, $zero, 5; ADD $t1, $t0, $t0; zero padding.
TestImage ==
    PackBytes(W(8200, 5)) \o PackBytes(W(264, 18464)) \o Zeros(56)

\* A native image of 0x34 bytes: the header, 28 bytes, the 20-byte name field
\* (" MARIO", a byte that is not ASCII, a tab, "KART", control bytes, a space).
NameField == <<32, 77, 65, 82, 73, 79, 200, 9, 75, 65, 82, 84, 0, 1, 2, 3, 4, 5, 6, 32>>

NativeImage(name) == Z64_HEADER \o <<1, 2, 3, 4>> \o Zeros(24) \o name

NativeImages == { NativeImage(NameField) }

\* The two other on-disk layouts of an image: every adjacent pair of bytes
\* exchanged, and the bytes of every 4-byte word reversed.
PairSwapped(d) == [p \in 1..Len(d) |-> IF p % 2 = 1 THEN d[p + 1] ELSE d[p - 1]]

WordReversed(d) == [p \in 1..Len(d) |-> d[8 * ((p - 1) \div 4) + 5 - p]]

File(d) == [chosen |-> TRUE, readable |-> TRUE, data |-> d]

Files ==
    { File(n) : n \in NativeImages }
        \cup { File(PairSwapped(n)) : n \in NativeImages }
        \cup { File(WordReversed(n)) : n \in NativeImages }
        \cup { File(TestImage),
               File(<<1, 2, 3>>),
               File(V64_HEADER \o <<7>>),
               [chosen |-> TRUE, readable |-> FALSE, data |-> <<>>],
               [chosen |-> FALSE, readable |-> FALSE, data |-> <<>>] }

----------------------------------------------------------------------------
(* Spec: the emulator driven through its menu commands and its timer *)

Init == N64Emulator_init

Next ==
    \/ \E file \in Files : LoadRom(file)
    \/ StartEmulation
    \/ PauseEmulation
    \/ StopEmulation
    \/ ResetEmulation
    \/ EmulationLoop

Spec == Init /\ [][Next]_vars

\* A queued callback firing while the running flag is clear.
IdleCallback == ~running /\ EmulationLoop

\* root.mainloop() runs every callback that root.after queued once its delay has
\* passed: a queued callback does not wait for ever.  (Only the callbacks that
\* find the flag clear are needed for what is checked under this specification.)
LiveSpec == Spec /\ WF_vars(IdleCallback)

----------------------------------------------------------------------------
(* Inputs of the component-level specification *)

\* Instruction words, encoded the way execute decodes them.
RType(rs, rt, rd, sa, funct) == W(rs * 32 + rt, rd * 2048 + sa * 64 + funct)

IType(opcode, rs, rt, imm) == W(opcode * 1024 + rs * 32 + rt, imm)

ADDI_T0_ZERO_5 == IType(8, 0, 8, 5)          \* 0x20080005

ADD_T1_T0_T0 == RType(8, 8, 9, 0, 32)        \* 0x01084820

\* One-instruction programs placed at address 0 of RDRAM.
AluPrograms ==
    { RType(8, 9, 10, 0, 32),      \* ADD  $10, $8, $9
      RType(8, 9, 0, 0, 32),       \* ADD  $0, $8, $9
      RType(0, 9, 10, 31, 0),      \* SLL  $10, $9, 31
      RType(0, 9, 0, 1, 0),        \* SLL  $0, $9, 1
      IType(8, 8, 9, 5),           \* ADDI $9, $8, 5
      IType(8, 8, 9, 65535),       \* ADDI $9, $8, -1
      IType(8, 8, 9, 32768),       \* ADDI $9, $8, -32768
      IType(8, 8, 0, 5),           \* ADDI $0, $8, 5
      IType(13, 8, 9, 65535),      \* ORI: primary opcode not implemented
      RType(8, 9, 10, 0, 33),      \* ADDU: function field not implemented
      W(65535, 65535) }            \* primary opcode 0x3F

\* SLL $10, $9, sa for every shift amount.
SllPrograms == { RType(0, 9, 10, sa, 0) : sa \in 0..31 }

LwPrograms ==
    { IType(35, 8, 9, 4),          \* LW   $9, 4($8)
      IType(35, 8, 9, 65532),      \* LW   $9, -4($8)
      IType(35, 8, 0, 4) }         \* LW   $0, 4($8)

\* Program counters other than 0: the boot vector, the last three bytes of RDRAM,
\* the first word of the image, and 0xFFFFFFFC, the last word of the 32-bit
\* address space (where the program counter stands 385,875,951 calls of execute
\* after construction: every word between the boot vector and it reads 0).
OtherPCs == { BOOT_VECTOR, W(127, 65533), ROM_BASE, W(65535, 65532) }

\* Values of $8 and $9 for the arithmetic programs.
AluVals8 == { ZERO, W(65535, 65535) }

AluVals9 == { W(0, 5), W(32768, 1) }

\* Values of $9 for the SLL programs: all bits set, bits 0 and 31 set, bit 0 clear.
SllVals9 == { W(65535, 65535), W(32768, 1), W(4660, 22136) }

\* Base addresses in $8 for the LW programs: with the offsets 4 and -4 they reach
\* aligned and unaligned RDRAM, its last word, its last three bytes, the image
\* and unmapped addresses.
LwVals8 == { ZERO, W(65535, 65535), W(128, 0), W(128, 1), W(4095, 65532) }

\* The word the interpreter starts on, its program counter and $8, $9.
CoreStarts ==
    ({ZERO} \X AluPrograms \X AluVals8 \X AluVals9)
        \cup ({ZERO} \X SllPrograms \X {ZERO} \X SllVals9)
        \cup ({ZERO} \X LwPrograms \X LwVals8 \X {W(0, 5)})
        \cup (OtherPCs \X {ZERO} \X {ZERO} \X {ZERO})

\* Addresses and values of the direct write32 and read32 calls.
AlignedAddrs == { W(0, 4), W(127, 65532) }

WriteAddrs == AlignedAddrs \cup { W(127, 65533), ROM_BASE, BOOT_VECTOR }

WriteVals == { W(57005, 48879), ADDI_T0_ZERO_5 }

\* ... the last of them: past the image, the last word of the image range, the
\* first address after it, the boot vector.
ProbeAddrs ==
    AlignedAddrs \cup { W(127, 65533), ROM_BASE, Add(ROM_BASE, W(0, 4)),
                        Add(ROM_BASE, W(0, 62)), W(8127, 65532), ROM_END,
                        BOOT_VECTOR }

Images == { TestImage, <<1, 2, 3, 4, 5, 6>>, <<>> }

MaxCycles == 2

----------------------------------------------------------------------------
(* Direct calls of the memory map and of the interpreter *)

Constructed ==
    /\ rcp = RCP_init
    /\ rom_loaded = FALSE
    /\ running = FALSE
    /\ timers = 0
    /\ status_label = Text("Ready")
    /\ title = Text("Project64 - Nintendo 64 Emulator")
    /\ dialog = "none"
    /\ call = [op |-> "init"]

CallRead32(address) ==
    /\ call' = [op |-> "read32", address |-> address,
                ret |-> read32(memory, address).val,
                raised |-> read32(memory, address).raised]
    /\ UNCHANGED <<memory, cpu, shellVars>>

CallWrite32(address, value) ==
    /\ memory' = write32(memory, address, value).mem
    /\ call' = [op |-> "write32", address |-> address, value |-> value,
                raised |-> write32(memory, address, value).raised]
    /\ UNCHANGED <<cpu, shellVars>>

CallLoadRom(rom_data) ==
    /\ memory' = load_rom(memory, rom_data)
    /\ call' = [op |-> "load_rom", raised |-> FALSE]
    /\ UNCHANGED <<cpu, shellVars>>

CallExecute ==
    /\ cpu.cycles < MaxCycles
    /\ cpu' = execute(cpu, memory).cpu
    /\ call' = [op |-> "execute", fetched |-> execute(cpu, memory).fetched,
                instruction |-> execute(cpu, memory).instruction,
                raised |-> execute(cpu, memory).raised]
    /\ UNCHANGED <<memory, shellVars>>

\* rcp.render_frame(): `before` is the buffer the call found, `ret` the one it
\* returned.
CallRenderFrame ==
    /\ rcp' = render_frame(rcp)
    /\ call' = [op |-> "render_frame", before |-> rcp.framebuffer,
                ret |-> render_frame(rcp).framebuffer, raised |-> FALSE]
    /\ UNCHANGED <<memory, cpu, rom_loaded, running, timers, status_label, title, dialog>>

----------------------------------------------------------------------------
(* MemSpec: a freshly constructed memory map under read32, write32, load_rom *)

MemInit ==
    /\ memory = N64Memory_init
    /\ cpu = MIPSR4300i_init
    /\ Constructed

MemNext ==
    \/ \E address \in ProbeAddrs : CallRead32(address)
    \/ \E address \in WriteAddrs, value \in WriteVals : CallWrite32(address, value)
    \/ \E rom_data \in Images : CallLoadRom(rom_data)

MemSpec == MemInit /\ [][MemNext]_vars

----------------------------------------------------------------------------
(* CoreSpec: an interpreter in any of the start states, stepped directly, over *)
(* a memory map that is read, written and loaded between the steps, beside a  *)
(* frame producer that is asked for frames                                    *)

CoreInit ==
    /\ \E start \in CoreStarts :
          /\ memory = write32(N64Memory_init, ZERO, start[2]).mem
          /\ cpu = [MIPSR4300i_init EXCEPT !.pc = start[1],
                                          !.regs[8] = start[3],
                                          !.regs[9] = start[4]]
    /\ Constructed

CoreNext ==
    \/ \E address \in AlignedAddrs : CallRead32(address)
    \/ \E address \in AlignedAddrs, value \in WriteVals : CallWrite32(address, value)
    \/ CallLoadRom(TestImage)
    \/ CallExecute
    \/ CallRenderFrame

CoreSpec == CoreInit /\ [][CoreNext]_vars


----------------------------------------------------------------------------
(* The instruction fields, the regions and the arithmetic as the claims     *)
(* state them, on the limbs directly                                        *)

Opcode(w) == w[1] \div 1024

Rs(w) == (w[1] \div 32) % 32

Rt(w) == w[1] % 32

Rd(w) == w[2] \div 2048

Funct(w) == w[2] % 64

Imm(w) == w[2]

\* n mod 2^32
Mod32(a) == W(a[1] % Limb, a[2])

\* (s + imm) mod 2^32 when bit 15 of imm is 0, (s + imm - 65536) mod 2^32 when it
\* is 1 (2^32 is added before the subtraction, so that nothing is negative).
SignedSum(s, imm) ==
    IF imm < 32768
    THEN Mod32(Add(s, W(0, imm)))
    ELSE Mod32(Add(W(s[1] + Limb - 1, s[2]), W(0, imm)))

InWorking(a) == a[1] < 128

InImageRange(a) == a[1] >= 4096 /\ a[1] < 8128

Aligned(a) == a[2] % 4 = 0

Sa(w) == (w[2] \div 64) % 32

\* Bit i (0 .. 31) of a 32-bit value.
Bit(a, i) == IF i < 16 THEN (a[2] \div (2 ^ i)) % 2 ELSE (a[1] \div (2 ^ (i - 16))) % 2

\* r = (t * 2^n) mod 2^32: r is a 32-bit value, its bits below n are 0 and its
\* bit i, for i >= n, is bit i - n of t.
IsTimesPow2(r, t, n) ==
    /\ IsWord32(r)
    /\ \A i \in 0..31 : Bit(r, i) = IF i >= n THEN Bit(t, i - n) ELSE 0

\* The step taken is a call of execute that fetched a word.
Executes == call'.op = "execute" /\ call'.fetched

\* ... and returned normally.
Completes == ~call'.raised /\ cpu'.cycles = cpu.cycles + 1

----------------------------------------------------------------------------
(* Claims *)

\* C1: with the 0x40-byte image ADDI $t0,$zero,5; ADD $t1,$t0,$t0 installed and an
\* interpreter started at the boot vector, the second of two consecutive calls of
\* execute leaves $t0 = 5 and $t1 = 10.
C1_EndToEnd ==
    [][(/\ memory.rom = Bytes(TestImage)
        /\ call.op = "execute" /\ ~call.raised
        /\ cpu.cycles = 1 /\ cpu.pc = Add(BOOT_VECTOR, W(0, 4))
        /\ call'.op = "execute")
       => (/\ ~call'.raised
           /\ cpu'.cycles = 2
           /\ cpu'.regs[8] = W(0, 5)
           /\ cpu'.regs[9] = W(0, 10))]_vars

\* C2: no call of execute ends in an exception.
C2_StepNeverRaises == call.op = "execute" => ~call.raised

\* C3: loading the file made from a native image n by exchanging every adjacent
\* pair of bytes, or by reversing the bytes of every 4-byte word, installs n itself
\* (and so the same name field as loading n).
C3_Normalization ==
    \A n \in NativeImages :
       (/\ call.op = "load_rom" /\ call.file.chosen /\ call.file.readable
        /\ call.file.data \in {PairSwapped(n), WordReversed(n)})
          => (/\ ~call.raised
              /\ memory.rom = Bytes(n)
              /\ PySlice(memory.rom.data, 32, 52) = PySlice(n, 32, 52))

\* C4: general register 0 is 0 in every state between steps.
C4_ZeroRegister == cpu.regs[0] = ZERO

\* An ADD into register 0 of a non-zero sum has been executed.
C4_Witness ==
    /\ call.op = "execute" /\ call.fetched /\ ~call.raised
    /\ call.instruction = RType(8, 9, 0, 0, 32)
    /\ Mod32(Add(cpu.regs[8], cpu.regs[9])) # ZERO
    /\ cpu.regs[0] = ZERO

\* C5: a step on an ADD word with rd # 0 completes and sets register rd to
\* (regs[rs] + regs[rt]) mod 2^32, leaving every other general register unchanged.
C5_Add ==
    [][(/\ Executes
        /\ Opcode(call'.instruction) = 0 /\ Funct(call'.instruction) = 32
        /\ Rd(call'.instruction) # 0)
       => LET w == call'.instruction
          IN  /\ Completes
              /\ cpu'.regs[Rd(w)] = Mod32(Add(cpu.regs[Rs(w)], cpu.regs[Rt(w)]))
              /\ \A i \in 0..31 : i # Rd(w) => cpu'.regs[i] = cpu.regs[i]]_vars

\* An ADD whose sum passed 2^32 has been executed: $10 = $8 + $9 - 2^32.
C5_Witness ==
    /\ call.op = "execute" /\ call.fetched /\ ~call.raised
    /\ call.instruction = RType(8, 9, 10, 0, 32)
    /\ cpu.regs[8] = W(65535, 65535) /\ cpu.regs[9] = W(32768, 1)
    /\ cpu.regs[10] = W(32768, 0)

\* C6: a step on an ADDI word with rt # 0 sets register rt to (regs[rs] + imm) mod
\* 2^32 when bit 15 of imm is 0 and to (regs[rs] + imm - 65536) mod 2^32 when it is 1.
C6_AddiSignExtension ==
    [][(/\ Executes
        /\ Opcode(call'.instruction) = 8
        /\ Rt(call'.instruction) # 0)
       => LET w == call'.instruction
          IN  /\ Completes
              /\ cpu'.regs[Rt(w)] = SignedSum(cpu.regs[Rs(w)], Imm(w))]_vars

\* ADDI $9, $8, -1 has been executed on $8 = 0: $9 = 0xFFFFFFFF.
C6_Witness ==
    /\ call.op = "execute" /\ call.fetched /\ ~call.raised
    /\ call.instruction = IType(8, 8, 9, 65535)
    /\ cpu.regs[8] = ZERO
    /\ cpu.regs[9] = W(65535, 65535)

\* C7 as stated: after write32(addr, v) at an aligned address of the Working
\* region, read32(addr) returns v and an LW with that effective address loads v
\* into its target register, whatever the target index.
C7_Original ==
    [][(call.op = "write32" /\ InWorking(call.address) /\ Aligned(call.address))
       => /\ ~call.raised
          /\ (call'.op = "read32" /\ call'.address = call.address)
                => (~call'.raised /\ call'.ret = call.value)
          /\ (/\ Executes
              /\ Opcode(call'.instruction) = 35
              /\ SignedSum(cpu.regs[Rs(call'.instruction)], Imm(call'.instruction))
                    = call.address)
                => (Completes /\ cpu'.regs[Rt(call'.instruction)] = call.value)]_vars

\* C7 (amended): the same, for an LW whose target index is not 0.
C7_RoundTrip ==
    [][(call.op = "write32" /\ InWorking(call.address) /\ Aligned(call.address))
       => /\ ~call.raised
          /\ (call'.op = "read32" /\ call'.address = call.address)
                => (~call'.raised /\ call'.ret = call.value)
          /\ (/\ Executes
              /\ Opcode(call'.instruction) = 35
              /\ SignedSum(cpu.regs[Rs(call'.instruction)], Imm(call'.instruction))
                    = call.address
              /\ Rt(call'.instruction) # 0)
                => (Completes /\ cpu'.regs[Rt(call'.instruction)] = call.value)]_vars

\* LW $9, -4($8) with $8 = 0x00800000 has loaded the last word of the Working
\* region, which holds the value written there.
C7_Witness ==
    /\ call.op = "execute" /\ call.fetched /\ ~call.raised
    /\ call.instruction = IType(35, 8, 9, 65532)
    /\ cpu.regs[8] = W(128, 0)
    /\ cpu.regs[9] = W(57005, 48879)
    /\ read32(memory, W(127, 65532)).val = W(57005, 48879)

\* C8: a step on a word whose primary opcode is not 0, 0x08 or 0x23, or is 0 with a
\* function field other than 0x20 and 0x00, completes and changes nothing but the
\* program counter (+4) and the instruction counter (+1).
C8_UnrecognizedIsNoOp ==
    [][(/\ Executes
        /\ \/ Opcode(call'.instruction) \notin {0, 8, 35}
           \/ Opcode(call'.instruction) = 0 /\ Funct(call'.instruction) \notin {32, 0})
       => /\ Completes
          /\ cpu' = [cpu EXCEPT !.pc = Add(cpu.pc, W(0, 4)), !.cycles = cpu.cycles + 1]
          /\ memory' = memory]_vars

\* The ADDU word (function field 0x21) has been executed on non-zero $8 and $9 and
\* left $10 at 0.
C8_Witness ==
    /\ call.op = "execute" /\ call.fetched /\ ~call.raised
    /\ call.instruction = RType(8, 9, 10, 0, 33)
    /\ cpu.regs[8] # ZERO /\ cpu.regs[9] # ZERO
    /\ cpu.regs[10] = ZERO
    /\ cpu.cycles = 1

\* C9: read32 of an address in the image range returns 0 while no image is loaded;
\* with an image of at least 4 bytes, the first address returns the big-endian
\* value of its first 4 bytes; a read not fully inside the image returns 0.
C9_ImageReads ==
    (call.op = "read32" /\ InImageRange(call.address))
       => LET d == memory.rom.data
              offset == (call.address[1] - 4096) * Limb + call.address[2]
          IN  /\ ~call.raised
              /\ memory.rom.none => call.ret = ZERO
              /\ (~memory.rom.none /\ Len(d) >= 4 /\ offset = 0)
                    => call.ret = W(d[1] * 256 + d[2], d[3] * 256 + d[4])
              /\ (~memory.rom.none /\ offset + 4 > Len(d)) => call.ret = ZERO

\* The first word of the loaded 0x40-byte image has been read: 0x20080005.
C9_Witness ==
    /\ call.op = "read32" /\ call.address = ROM_BASE
    /\ memory.rom = Bytes(TestImage)
    /\ call.ret = W(8200, 5)

\* C10: write32 outside the Working region returns normally and changes nothing;
\* inside it, the image, the persistent store and every byte of Working memory
\* other than the 4 addressed ones are unchanged.
C10_WriteFrame ==
    [][call'.op = "write32"
       => LET idx == call'.address[1] * Limb + call'.address[2]
          IN  /\ ~InWorking(call'.address) => (memory' = memory /\ ~call'.raised)
              /\ InWorking(call'.address) =>
                    /\ memory'.rom = memory.rom
                    /\ memory'.sram = memory.sram
                    /\ \A i \in (DOMAIN memory.rdram) \cup (DOMAIN memory'.rdram) :
                          i \notin idx..(idx + 3)
                             => ByteAt(memory'.rdram, i) = ByteAt(memory.rdram, i)]_vars

\* A write to the first address of the image range has been discarded with an
\* image loaded and Working memory already written.
C10_Witness ==
    /\ call.op = "write32" /\ call.address = ROM_BASE /\ ~call.raised
    /\ memory.rom = Bytes(TestImage)
    /\ ByteAt(memory.rdram, 4) = 222
    /\ ByteAt(memory.rdram, 0) = 0

\* C11: a step on an SLL word with rd # 0 completes and sets register rd to
\* (regs[rt] * 2^sa) mod 2^32; with sa = 0 that is regs[rt] itself, with sa = 31 it
\* is bit 0 of regs[rt] in bit 31 and every other bit 0.
C11_Sll ==
    [][(/\ Executes
        /\ Opcode(call'.instruction) = 0 /\ Funct(call'.instruction) = 0
        /\ Rd(call'.instruction) # 0)
       => LET w == call'.instruction
              t == cpu.regs[Rt(w)]
          IN  /\ Completes
              /\ IsTimesPow2(cpu'.regs[Rd(w)], t, Sa(w))
              /\ Sa(w) = 0 => cpu'.regs[Rd(w)] = t
              /\ Sa(w) = 31 => cpu'.regs[Rd(w)] = W((t[2] % 2) * 32768, 0)]_vars

\* SLL $10, $9, 31 has been executed on $9 = 0x80000001: $10 = 0x80000000.
C11_Witness ==
    /\ call.op = "execute" /\ call.fetched /\ ~call.raised
    /\ call.instruction = RType(0, 9, 10, 31, 0)
    /\ cpu.regs[9] = W(32768, 1)
    /\ cpu.regs[10] = W(32768, 0)

\* C12: after reset_emulation, and after stop_emulation, the 32 general registers,
\* hi, lo and the 32 control registers are 0, the program counter is 0xA4000040,
\* the instruction counter is 0 and every byte of the pixel buffer is 0, while the
\* memory map (Working memory, image, persistent store) and the image-loaded flag
\* are as they were before the call.
C12_Reset ==
    [][call'.op \in {"reset_emulation", "stop_emulation"}
       => /\ \A i \in 0..31 : cpu'.regs[i] = ZERO /\ cpu'.cp0_regs[i] = ZERO
          /\ cpu'.hi = ZERO /\ cpu'.lo = ZERO
          /\ cpu'.pc = W(41984, 64)
          /\ cpu'.cycles = 0
          /\ rcp'.framebuffer.shape = <<240, 320, 3>>
          /\ rcp'.framebuffer.plane = <<0, 0, 0>>
          /\ memory' = memory
          /\ rom_loaded' = rom_loaded]_vars

\* A reset while the loop is running: the flag is still set and a callback is
\* queued, an image is installed, and the counter and the pixel buffer, which the
\* first batch had advanced and filled, are back at their initial values.
C12_Witness ==
    /\ call.op = "reset_emulation"
    /\ running /\ timers > 0
    /\ rom_loaded /\ memory.rom = Bytes(TestImage)
    /\ cpu.cycles = 0 /\ cpu.pc = W(41984, 64)
    /\ rcp.framebuffer.plane = <<0, 0, 0>>

\* C13: pause_emulation and stop_emulation return with the running flag clear;
\* while it is clear (until the next start_emulation) no call executes an
\* instruction: the flag stays clear, a callback that fires leaves the interpreter
\* and the pixel buffer as they are and queues nothing, the other calls leave the
\* interpreter as it is or replace it by a fresh one; and unless the loop is
\* started again, eventually no callback is queued.
C13_PauseStop ==
    /\ [][call'.op \in {"pause_emulation", "stop_emulation"} => ~running']_vars
    /\ [][(~running /\ call'.op # "start_emulation")
          => /\ ~running'
             /\ timers' <= timers
             /\ cpu'.regs = cpu.regs
             /\ cpu'.cycles \in {cpu.cycles, 0}
             /\ call'.op \notin {"reset_emulation", "stop_emulation"} => cpu' = cpu
             /\ call'.op = "emulation_loop"
                   => (cpu' = cpu /\ rcp' = rcp /\ timers' = timers - 1)]_vars
    /\ (~running) ~> (running \/ timers = 0)

\* The callback queued by the first batch has fired after pause_emulation: the
\* counter still stands at one batch and nothing is queued.
C13_Witness ==
    /\ call.op = "emulation_loop"
    /\ ~running /\ timers = 0
    /\ status_label = Text("Paused")
    /\ cpu.cycles = BATCH

\* C14: start_emulation with no image loaded leaves the running flag clear, queues
\* no callback and leaves the interpreter, the memory map and the pixel buffer as
\* they are; and in every state in which no image has been loaded, no instruction
\* has been executed, the flag is clear and no callback is queued.
C14_StartBeforeLoad ==
    /\ [][(call'.op = "start_emulation" /\ ~rom_loaded)
          => /\ ~running' /\ running' = running
             /\ timers' = timers
             /\ cpu' = cpu /\ memory' = memory /\ rcp' = rcp
             /\ rom_loaded' = rom_loaded]_vars
    /\ [](~rom_loaded => (cpu.cycles = 0 /\ ~running /\ timers = 0))

\* start_emulation has been called with no image loaded: the warning is up and
\* nothing has run.
C14_Witness ==
    /\ call.op = "start_emulation"
    /\ ~rom_loaded /\ memory.rom = None
    /\ dialog = "warning"
    /\ ~running /\ timers = 0 /\ cpu.cycles = 0

\* C15: a load of a file that cannot be read, or that holds fewer than 0x34 bytes,
\* ends in the error report and leaves the installed image and the image-loaded
\* flag as they were.
C15_LoadErrors ==
    [][(/\ call'.op = "load_rom" /\ call'.file.chosen
        /\ (~call'.file.readable \/ Len(call'.file.data) < 52))
       => /\ call'.raised
          /\ dialog' = "error"
          /\ memory'.rom = memory.rom
          /\ rom_loaded' = rom_loaded]_vars

\* C16: the program counter is a value in 0 .. 2^32 - 1 in every state.
C16_PcIs32Bit == IsWord32(cpu.pc)

\* C17: render_frame returns a buffer of 240 x 320 x 3 bytes, which is the buffer
\* the frame producer then holds, and leaves the display-configuration values as
\* they are; a call that directly follows another call of render_frame returns a
\* buffer equal to the one that call returned.
C17_RenderIdempotent ==
    [][call'.op = "render_frame"
       => /\ ~call'.raised
          /\ call'.ret.shape = <<240, 320, 3>>
          /\ call'.ret = rcp'.framebuffer
          /\ rcp'.vi_regs = rcp.vi_regs
          /\ call.op = "render_frame" => call'.ret = call.ret]_vars

\* render_frame has been called on a buffer that an earlier call had filled, after
\* an instruction was executed, and has returned that same content.
C17_Witness ==
    /\ call.op = "render_frame"
    /\ call.before # Framebuffer(0, 0, 0)
    /\ call.ret = call.before
    /\ rcp.framebuffer = call.ret
    /\ cpu.cycles > 0

\* C18: at most one emulation_loop callback is queued at any time.
C18_SingleTickLoop == timers <= 1

\* C19: under the menu commands and the timer, the program counter is at or above
\* 0xA4000040 and so in neither mapped range, the word at the program counter
\* reads 0, and the 32 general registers are 0, in every state.
C19_NothingMapped ==
    /\ cpu.pc[1] > 41984 \/ (cpu.pc[1] = 41984 /\ cpu.pc[2] >= 64)
    /\ ~InWorking(cpu.pc) /\ ~InImageRange(cpu.pc)
    /\ read32(memory, cpu.pc) = [raised |-> FALSE, val |-> ZERO]
    /\ \A i \in 0..31 : cpu.regs[i] = ZERO

\* Two batches have run with the image ADDI $t0,$zero,5; ADD $t1,$t0,$t0 loaded:
\* the program counter is 8000 bytes past the boot vector and $t0, $t1 are 0.
C19_Witness ==
    /\ call.op = "emulation_loop"
    /\ memory.rom = Bytes(TestImage)
    /\ cpu.cycles = 2 * BATCH
    /\ cpu.pc = W(41984, 8064)
    /\ cpu.regs[8] = ZERO /\ cpu.regs[9] = ZERO

\* C20: a call of execute leaves the memory map (Working memory, image, persistent
\* store), hi, lo and the 32 control registers as they are and adds exactly 1 to
\* the instruction counter.
C20_StepFrame ==
    [][call'.op = "execute"
       => /\ memory' = memory
          /\ cpu'.hi = cpu.hi /\ cpu'.lo = cpu.lo
          /\ cpu'.cp0_regs = cpu.cp0_regs
          /\ cpu'.cycles = cpu.cycles + 1]_vars

=============================================================================
